---- MODULE Spec2Model ----
(***************************************************************************)
(* Model of the Simple-DAO contract (contract/src/lib.rs).                 *)
(*                                                                         *)
(* The contract runs on NEAR: every public method is one transaction that  *)
(* runs to completion; a panic (assert!, expect, unwrap, env::panic,       *)
(* division by zero) reverts every storage write of the call and drops the *)
(* promises it created.  Each action below is one whole call; a call that  *)
(* panics leaves the contract state as it was and only records its error   *)
(* in lastCall.                                                            *)
(*                                                                         *)
(* Every Proposal creates its vote map with the same storage prefix "v"    *)
(* (lib.rs:188), so the key-index table and the key and value vectors of   *)
(* all vote maps live in the same storage slots; only the length of the    *)
(* map is part of the stored Proposal.  vote_index, vote_keys and          *)
(* vote_vals are those shared slots.                                       *)
(***************************************************************************)
EXTENDS Integers, Sequences, FiniteSets, TLC

\* ---------------------------------------------------------------- bounds
MaxProposals == 2
MaxTime == 2
MaxPeriod == 1
MaxBond == 1
MaxAmount == 1
MaxRefunds == 2

\* ------------------------------------------------------------- constants
CONSENSUS_PERCENTAGE == 50
NEW_COUNCIL_WEIGHT == 10

Accounts == {"alice", "bob"}
Votes == {"Yes", "No"}
Amounts == 1..MaxAmount
Founder == "alice"

\* the proposals submitted: the caller of add_proposal with the target and
\* kind of its ProposalInput
ProposalInputs ==
    [caller : {Founder}, target : {"bob"},
     kind : [type : {"Payout"}, amount : Amounts]]
        \cup [caller : {"bob"}, target : {"bob"},
              kind : [type : {"NewCouncil"}, amount : Amounts]]
        \cup {[caller |-> "bob", target |-> Founder,
                kind |-> [type |-> "DeleteCouncil", amount |-> 0]]}

VARIABLES
    bond,          \* DAO.bond
    vote_period,   \* DAO.vote_period
    council,       \* DAO.council : UnorderedSet<Council>, in iteration order
    proposals,     \* DAO.proposals : Vector<Proposal>
    vote_index,    \* storage "vi" ++ key : Council -> slot (shared by all maps)
    vote_keys,     \* storage "vk" ++ slot : Council    (shared by all maps)
    vote_vals,     \* storage "vv" ++ slot : Vote       (shared by all maps)
    now,           \* env::block_timestamp()
    refunds,       \* per proposal: bond transfers to the proposer so far
    executed,      \* per proposal: executions of the proposal's action so far
    lastCall       \* the most recent call and its outcome

vars == <<bond, vote_period, council, proposals, vote_index, vote_keys,
          vote_vals, now, refunds, executed, lastCall>>

contract == <<bond, vote_period, council, proposals, vote_index, vote_keys,
              vote_vals>>

\* ---------------------------------------------------------------- helpers
RECURSIVE SumSeq(_)
SumSeq(s) == IF s = <<>> THEN 0 ELSE Head(s) + SumSeq(Tail(s))

RECURSIVE FilterSeq(_, _)
FilterSeq(s, acct) ==
    IF s = <<>> THEN <<>>
    ELSE IF Head(s).account = acct
         THEN <<Head(s)>> \o FilterSeq(Tail(s), acct)
         ELSE FilterSeq(Tail(s), acct)

\* Vector::push / Vector::replace on slot i (0-based) of a shared vector
WriteSlot(s, i, x) ==
    IF i + 1 <= Len(s) THEN [s EXCEPT ![i + 1] = x] ELSE Append(s, x)

\* ProposalStatus::is_finalized
is_finalized(status) == status # "Vote"

\* UnorderedSet::insert: an element equal in every field is not added twice
set_insert(cs, c) ==
    IF \E i \in 1..Len(cs) : cs[i] = c THEN cs ELSE Append(cs, c)

\* UnorderedSet::remove: the last element is swapped into the freed slot
set_remove(cs, c) ==
    IF \E i \in 1..Len(cs) : cs[i] = c
    THEN LET i == CHOOSE j \in 1..Len(cs) : cs[j] = c
             n == Len(cs)
         IN SubSeq([cs EXCEPT ![i] = cs[n]], 1, n - 1)
    ELSE cs

\* the ballots a proposal's vote map shows: slots 0 .. votes_len - 1
ledger(p, keys, vals) ==
    [j \in 1..p.votes_len |-> [council |-> keys[j], vote |-> vals[j]]]

\* Proposal::vote_status, the summed weight of the Yes ballots
percent(p, keys, vals) ==
    SumSeq([j \in 1..p.votes_len |->
               IF vals[j] = "Yes" THEN keys[j].weight ELSE 0])

\* vote_status with the deadline itself counted as expired
vote_status_at_deadline(p, keys, vals, t) ==
    IF percent(p, keys, vals) >= CONSENSUS_PERCENTAGE THEN "Success"
    ELSE IF percent(p, keys, vals) < CONSENSUS_PERCENTAGE
            /\ t >= p.vote_period_end THEN "Fail"
    ELSE "Vote"

\* Proposal::vote_status
vote_status(p, keys, vals, t) ==
    IF percent(p, keys, vals) >= CONSENSUS_PERCENTAGE THEN "Success"
    ELSE IF percent(p, keys, vals) < CONSENSUS_PERCENTAGE
            /\ t > p.vote_period_end THEN "Fail"
    ELSE "Vote"

\* DAO::recompute_percentage: the sum of the locked tokens divides every
\* member's stake; the quotient is assigned to a copy the iterator made and
\* is never written back, so the stored set stays as it is.  Dividing by a
\* zero sum panics.
recompute_percentage(cs) ==
    LET sum == SumSeq([i \in 1..Len(cs) |-> cs[i].locked_tokens])
    IN [panic |-> Len(cs) > 0 /\ sum = 0, council |-> cs]

\* ------------------------------------------------------------- operations
NoTransfers == <<>>

\* a call that panics: the host reverts it, so it yields the council as it
\* was and no transfer; undone lists what the call had already requested or
\* written when it panicked
Failed(err, tally, cs) ==
    [result |-> err, tally |-> tally, council |-> cs,
     transfers |-> NoTransfers, refunded |-> 0, acted |-> 0,
     undone |-> <<>>]

FailedAfter(err, tally, cs, done) ==
    [Failed(err, tally, cs) EXCEPT !.undone = done]

\* DAO::finalized, the Success arm: the bond goes back to the proposer, then
\* the proposal's kind is carried out
finalized_success(cs, p, bnd) ==
    LET refund == [to |-> p.proposer, amount |-> bnd, what |-> "bond"]
        target == p.receiver
    IN CASE p.kind.type = "NewCouncil" ->
              LET c == [account |-> target, weight |-> NEW_COUNCIL_WEIGHT,
                        locked_tokens |-> p.kind.amount]
                  r == recompute_percentage(set_insert(cs, c))
              IN IF r.panic
                 THEN FailedAfter("DivisionByZero", "Success", cs,
                                  <<"transfer", "council">>)
                 ELSE [result |-> "ok", tally |-> "Success",
                       council |-> r.council, transfers |-> <<refund>>,
                       refunded |-> 1, acted |-> 1]
         [] p.kind.type = "DeleteCouncil" ->
              LET cands == FilterSeq(cs, target)
              IN IF cands = <<>>
                 THEN FailedAfter("NotFound", "Success", cs, <<"transfer">>)
                 ELSE LET c == cands[1]
                          r == recompute_percentage(set_remove(cs, c))
                      IN IF r.panic
                         THEN FailedAfter("DivisionByZero", "Success", cs,
                                          <<"transfer", "transfer",
                                            "council">>)
                         ELSE [result |-> "ok", tally |-> "Success",
                               council |-> r.council,
                               transfers |->
                                   <<refund,
                                     [to |-> c.account,
                                      amount |-> c.locked_tokens,
                                      what |-> "stake"]>>,
                               refunded |-> 1, acted |-> 1]
         [] p.kind.type = "Payout" ->
              [result |-> "ok", tally |-> "Success", council |-> cs,
               transfers |->
                   <<refund,
                     [to |-> target, amount |-> p.kind.amount,
                      what |-> "payout"]>>,
               refunded |-> 1, acted |-> 1]

\* finalized with the Fail arm carrying out the proposal's kind as well
finalized_acts_on_fail(cs, props, keys, vals, bnd, id, t) ==
    IF id >= Len(props) THEN Failed("NotFound", "none", cs)
    ELSE LET p == props[id + 1]
         IN IF is_finalized(p.status)
            THEN Failed("AlreadyFinalized", "none", cs)
            ELSE LET tally == vote_status(p, keys, vals, t)
                 IN CASE tally = "Success" -> finalized_success(cs, p, bnd)
                      [] tally = "Fail" ->
                           [finalized_success(cs, p, bnd) EXCEPT
                               !.tally = "Fail"]
                      [] tally = "Vote" -> Failed("NotReady", "Vote", cs)

\* DAO::finalized.  The status computed by vote_status is assigned to the
\* local copy of the proposal only; the copy is never put back into
\* self.proposals, so the call changes the council and requests transfers
\* but leaves the stored proposals as they are.
finalized(cs, props, keys, vals, bnd, id, t) ==
    IF id >= Len(props) THEN Failed("NotFound", "none", cs)
    ELSE LET p == props[id + 1]
         IN IF is_finalized(p.status)
            THEN Failed("AlreadyFinalized", "none", cs)
            ELSE LET tally == vote_status(p, keys, vals, t)
                 IN CASE tally = "Success" -> finalized_success(cs, p, bnd)
                      [] tally = "Fail" ->
                           [result |-> "ok", tally |-> "Fail", council |-> cs,
                            transfers |->
                                <<[to |-> p.proposer, amount |-> bnd,
                                   what |-> "bond"]>>,
                            refunded |-> 1, acted |-> 0]
                      [] tally = "Vote" -> Failed("NotReady", "Vote", cs)

VoteFailed(err, tally) ==
    [result |-> err, tally |-> tally, council |-> council,
     proposals |-> proposals, vote_index |-> vote_index,
     vote_keys |-> vote_keys, vote_vals |-> vote_vals,
     transfers |-> NoTransfers, refunded |-> 0, acted |-> 0,
     undone |-> <<>>]

\* DAO::vote after the ballot may be recorded: UnorderedMap::insert, then
\* vote_status, replace, and finalized when the new status is terminal
vote_record(councils, id, caller, v) ==
    LET p == proposals[id + 1]
        c == councils[1]
        known == c \in DOMAIN vote_index
        slot == IF known THEN vote_index[c] ELSE p.votes_len
        idx == IF known THEN vote_index
               ELSE [k \in DOMAIN vote_index \cup {c} |->
                        IF k = c THEN slot ELSE vote_index[k]]
        keys == IF known THEN vote_keys ELSE WriteSlot(vote_keys, slot, c)
        vals == WriteSlot(vote_vals, slot, v)
        len == IF known THEN p.votes_len ELSE p.votes_len + 1
        post_status == vote_status([p EXCEPT !.votes_len = len], keys, vals, now)
        props == [proposals EXCEPT ![id + 1] =
                     [p EXCEPT !.votes_len = len, !.status = post_status]]
    IN IF known /\ slot >= p.votes_len
       THEN VoteFailed("IndexOutOfBounds", "none")
       ELSE IF is_finalized(post_status)
            THEN LET f == finalized(council, props, keys, vals, bond, id, now)
                 IN IF f.result # "ok"
                    THEN [VoteFailed(f.result, post_status) EXCEPT
                             !.undone = <<"ballot", "status">> \o f.undone]
                    ELSE [result |-> "ok", tally |-> f.tally,
                          council |-> f.council, proposals |-> props,
                          vote_index |-> idx, vote_keys |-> keys,
                          vote_vals |-> vals, transfers |-> f.transfers,
                          refunded |-> f.refunded, acted |-> f.acted]
            ELSE [result |-> "ok", tally |-> post_status,
                  council |-> council, proposals |-> props,
                  vote_index |-> idx, vote_keys |-> keys, vote_vals |-> vals,
                  transfers |-> NoTransfers, refunded |-> 0, acted |-> 0]

\* vote without the check for an earlier ballot of the caller
vote_no_duplicate_check(id, caller, v) ==
    LET councils == FilterSeq(council, caller)
    IN IF Len(councils) = 0 THEN VoteFailed("NotCouncilMember", "none")
       ELSE IF id >= Len(proposals) THEN VoteFailed("NotFound", "none")
       ELSE IF proposals[id + 1].status # "Vote"
            THEN VoteFailed("AlreadyFinalized", "none")
       ELSE IF proposals[id + 1].vote_period_end < now
            THEN LET f == finalized(council, proposals, vote_keys, vote_vals,
                                    bond, id, now)
                 IN IF f.result # "ok"
                    THEN [VoteFailed(f.result, f.tally) EXCEPT
                             !.undone = f.undone]
                    ELSE [VoteFailed("ok", f.tally) EXCEPT
                             !.council = f.council,
                             !.transfers = f.transfers,
                             !.refunded = f.refunded, !.acted = f.acted]
       ELSE vote_record(councils, id, caller, v)

\* vote with the council check made after the deadline check
vote_council_check_late(id, caller, v) ==
    LET councils == FilterSeq(council, caller)
    IN IF id >= Len(proposals) THEN VoteFailed("NotFound", "none")
       ELSE IF proposals[id + 1].status # "Vote"
            THEN VoteFailed("AlreadyFinalized", "none")
       ELSE IF proposals[id + 1].vote_period_end < now
            THEN LET f == finalized(council, proposals, vote_keys, vote_vals,
                                    bond, id, now)
                 IN IF f.result # "ok"
                    THEN [VoteFailed(f.result, f.tally) EXCEPT
                             !.undone = f.undone]
                    ELSE [VoteFailed("ok", f.tally) EXCEPT
                             !.council = f.council,
                             !.transfers = f.transfers,
                             !.refunded = f.refunded, !.acted = f.acted]
       ELSE IF Len(councils) = 0 THEN VoteFailed("NotCouncilMember", "none")
       ELSE IF \E j \in 1..proposals[id + 1].votes_len :
                   vote_keys[j].account = caller
            THEN VoteFailed("DuplicateVote", "none")
       ELSE vote_record(councils, id, caller, v)

\* DAO::vote
vote(id, caller, v) ==
    LET councils == FilterSeq(council, caller)
    IN IF Len(councils) = 0 THEN VoteFailed("NotCouncilMember", "none")
       ELSE IF id >= Len(proposals) THEN VoteFailed("NotFound", "none")
       ELSE IF proposals[id + 1].status # "Vote"
            THEN VoteFailed("AlreadyFinalized", "none")
       ELSE IF proposals[id + 1].vote_period_end < now
            THEN LET f == finalized(council, proposals, vote_keys, vote_vals,
                                    bond, id, now)
                 IN IF f.result # "ok"
                    THEN [VoteFailed(f.result, f.tally) EXCEPT
                             !.undone = f.undone]
                    ELSE [VoteFailed("ok", f.tally) EXCEPT
                             !.council = f.council,
                             !.transfers = f.transfers,
                             !.refunded = f.refunded, !.acted = f.acted]
       ELSE IF \E j \in 1..proposals[id + 1].votes_len :
                   vote_keys[j].account = caller
            THEN VoteFailed("DuplicateVote", "none")
       ELSE vote_record(councils, id, caller, v)

\* add_proposal with the deadline set to the time of the call
add_proposal_no_period(caller, deposit, target, kind) ==
    IF ~(deposit >= bond)
    THEN [result |-> "InsufficientBond", proposals |-> proposals, ret |-> -1]
    ELSE LET p == [status |-> "Vote", proposer |-> caller,
                   receiver |-> target, kind |-> kind,
                   vote_period_end |-> now, votes_len |-> 0]
             props == Append(proposals, p)
         IN [result |-> "ok", proposals |-> props, ret |-> Len(props) - 1]

\* DAO::add_proposal
add_proposal(caller, deposit, target, kind) ==
    IF ~(deposit >= bond)
    THEN [result |-> "InsufficientBond", proposals |-> proposals, ret |-> -1]
    ELSE LET p == [status |-> "Vote", proposer |-> caller,
                   receiver |-> target, kind |-> kind,
                   vote_period_end |-> now + vote_period, votes_len |-> 0]
             props == Append(proposals, p)
         IN [result |-> "ok", proposals |-> props, ret |-> Len(props) - 1]

\* ---------------------------------------------------------------- actions
NoCall == [op |-> "new", caller |-> "", id |-> -1, vote |-> "",
           deposit |-> -1,
           result |-> "ok", tally |-> "none", transfers |-> NoTransfers,
           undone |-> <<>>, ret |-> -1]

\* what a call had done when it panicked; nothing when it completed
Undone(r) == IF r.result = "ok" THEN <<>> ELSE r.undone

Bump(counts, id, n) ==
    IF n = 0 THEN counts ELSE [counts EXCEPT ![id + 1] = @ + n]

\* DAO::new: the caller becomes the only council member, with weight zero and
\* the attached deposit as locked tokens
Init ==
    /\ bond \in 1..MaxBond
    /\ vote_period \in 1..MaxPeriod
    /\ \E deposit \in Amounts :
           council = <<[account |-> Founder, weight |-> 0,
                        locked_tokens |-> deposit]>>
    /\ proposals = <<>>
    /\ vote_index = <<>>
    /\ vote_keys = <<>>
    /\ vote_vals = <<>>
    /\ now = 0
    /\ refunds = <<>>
    /\ executed = <<>>
    /\ lastCall = NoCall

AddProposal ==
    \E deposit \in 0..MaxBond, inp \in ProposalInputs :
        /\ Len(proposals) < MaxProposals
        /\ LET r == add_proposal(inp.caller, deposit, inp.target, inp.kind)
           IN /\ proposals' = r.proposals
              /\ refunds' = IF r.result = "ok" THEN Append(refunds, 0)
                            ELSE refunds
              /\ executed' = IF r.result = "ok" THEN Append(executed, 0)
                             ELSE executed
              /\ lastCall' = [NoCall EXCEPT !.op = "add_proposal",
                                 !.deposit = deposit,
                                 !.result = r.result, !.ret = r.ret]
        /\ UNCHANGED <<bond, vote_period, council, vote_index, vote_keys,
                       vote_vals, now>>

VoteCall ==
    \E caller \in Accounts, id \in 0..(MaxProposals - 1), v \in Votes :
        /\ LET r == vote(id, caller, v)
           IN /\ r.refunded > 0 => SumSeq(refunds) < MaxRefunds
              /\ council' = r.council
              /\ proposals' = r.proposals
              /\ vote_index' = r.vote_index
              /\ vote_keys' = r.vote_keys
              /\ vote_vals' = r.vote_vals
              /\ refunds' = Bump(refunds, id, r.refunded)
              /\ executed' = Bump(executed, id, r.acted)
              /\ lastCall' = [NoCall EXCEPT !.op = "vote", !.caller = caller,
                                 !.id = id, !.vote = v, !.result = r.result,
                                 !.tally = r.tally,
                                 !.transfers = r.transfers,
                                 !.undone = Undone(r)]
        /\ UNCHANGED <<bond, vote_period, now>>

FinalizedCall ==
    \E id \in 0..(MaxProposals - 1) :
        /\ LET r == finalized(council, proposals, vote_keys, vote_vals, bond,
                              id, now)
           IN /\ r.refunded > 0 => SumSeq(refunds) < MaxRefunds
              /\ council' = r.council
              /\ refunds' = Bump(refunds, id, r.refunded)
              /\ executed' = Bump(executed, id, r.acted)
              /\ lastCall' = [NoCall EXCEPT !.op = "finalized",
                                 !.id = id,
                                 !.result = r.result, !.tally = r.tally,
                                 !.transfers = r.transfers,
                                 !.undone = Undone(r)]
        /\ UNCHANGED <<bond, vote_period, proposals, vote_index, vote_keys,
                       vote_vals, now>>

\* the block timestamp moves on between calls
Tick ==
    /\ now < MaxTime
    /\ now' = now + 1
    /\ UNCHANGED <<bond, vote_period, council, proposals, vote_index,
                   vote_keys, vote_vals, refunds, executed, lastCall>>

Next == AddProposal \/ VoteCall \/ FinalizedCall \/ Tick

Spec == Init /\ [][Next]_vars

\* ------------------------------------------------- the Success arm alone
\* No call made after DAO::new reaches the Success arm of finalized: the
\* founder is stored with weight 0 and no stored weight is ever recomputed.
\* SpecExecutor adds the arm as an operation of its own, DAO::finalized with
\* the tally of the proposal taken to be Success, so that what the arm does
\* to the council can be examined.
ExecAmounts == 0..MaxAmount

ExecInputs ==
    [caller : {"bob"}, target : Accounts,
     kind : [type : {"NewCouncil"}, amount : ExecAmounts]]
        \cup [caller : {"bob"}, target : Accounts,
              kind : {[type |-> "DeleteCouncil", amount |-> 0]}]
        \cup [caller : {Founder}, target : {"bob"},
              kind : [type : {"Payout"}, amount : Amounts]]

InitExecutor ==
    /\ bond \in 1..MaxBond
    /\ vote_period \in 1..MaxPeriod
    /\ \E deposit \in ExecAmounts :
           council = <<[account |-> Founder, weight |-> 0,
                        locked_tokens |-> deposit]>>
    /\ proposals = <<>>
    /\ vote_index = <<>>
    /\ vote_keys = <<>>
    /\ vote_vals = <<>>
    /\ now = 0
    /\ refunds = <<>>
    /\ executed = <<>>
    /\ lastCall = NoCall

AddExecProposal ==
    \E inp \in ExecInputs :
        /\ Len(proposals) < MaxProposals
        /\ LET r == add_proposal(inp.caller, bond, inp.target, inp.kind)
           IN /\ proposals' = r.proposals
              /\ refunds' = Append(refunds, 0)
              /\ executed' = Append(executed, 0)
              /\ lastCall' = [NoCall EXCEPT !.op = "add_proposal",
                                 !.deposit = bond,
                                 !.result = r.result, !.ret = r.ret]
        /\ UNCHANGED <<bond, vote_period, council, vote_index, vote_keys,
                       vote_vals, now>>

FinalizedAsSuccess ==
    \E id \in 0..(MaxProposals - 1) :
        /\ id < Len(proposals)
        /\ ~is_finalized(proposals[id + 1].status)
        /\ LET r == finalized_success(council, proposals[id + 1], bond)
           IN /\ r.refunded > 0 => SumSeq(refunds) < MaxRefunds
              /\ council' = r.council
              /\ refunds' = Bump(refunds, id, r.refunded)
              /\ executed' = Bump(executed, id, r.acted)
              /\ lastCall' = [NoCall EXCEPT !.op = "finalized",
                                 !.id = id,
                                 !.result = r.result, !.tally = r.tally,
                                 !.transfers = r.transfers,
                                 !.undone = Undone(r)]
        /\ UNCHANGED <<bond, vote_period, proposals, vote_index, vote_keys,
                       vote_vals, now>>

NextExecutor == AddExecProposal \/ VoteCall \/ FinalizedAsSuccess

SpecExecutor == InitExecutor /\ [][NextExecutor]_vars

\* ----------------------------------------------------------------- claims
Ids == 0..(MaxProposals - 1)
Stored(id) == proposals[id + 1]
MemberAccounts == {council[i].account : i \in 1..Len(council)}
YesWeight(id) == percent(Stored(id), vote_keys, vote_vals)
BondRefund(id) == [to |-> Stored(id).proposer, amount |-> bond, what |-> "bond"]

\* a step that is a call of op on proposal id (Tick is the only step that
\* moves the clock, and every call writes lastCall)
CallStep(op, id) ==
    /\ now' = now
    /\ lastCall'.op = op
    /\ lastCall'.id = id

\* C1: for every proposal the bond is refunded at most once and the action is
\* executed at most once, whatever vote and finalized calls are made
C1_AtMostOnce ==
    \A i \in 1..Len(proposals) : refunds[i] <= 1 /\ executed[i] <= 1

\* C2: when a finalized call on proposal i completes, the status stored for
\* proposal i is terminal and is the status the tally computed in that call
C2_StatusPersisted ==
    (lastCall.op = "finalized" /\ lastCall.result = "ok")
        => /\ Stored(lastCall.id).status \in {"Success", "Fail"}
           /\ Stored(lastCall.id).status = lastCall.tally

\* C5: on an open proposal below the threshold whose deadline has passed, a
\* vote call by a council member or a finalized call stores the status Fail,
\* refunds the bond, pays nothing else, changes no membership and records no
\* ballot
C5_ExpiredBecomesFail ==
    [][\A id \in Ids :
        ( /\ CallStep("vote", id) \/ CallStep("finalized", id)
          /\ id < Len(proposals)
          /\ Stored(id).status = "Vote"
          /\ YesWeight(id) < CONSENSUS_PERCENTAGE
          /\ now > Stored(id).vote_period_end
          /\ lastCall'.op = "vote" => lastCall'.caller \in MemberAccounts )
        => /\ lastCall'.result = "ok"
           /\ proposals'[id + 1].status = "Fail"
           /\ lastCall'.transfers = <<BondRefund(id)>>
           /\ refunds'[id + 1] = refunds[id + 1] + 1
           /\ executed' = executed
           /\ council' = council
           /\ proposals'[id + 1].votes_len = Stored(id).votes_len
           /\ <<vote_index, vote_keys, vote_vals>>'
                  = <<vote_index, vote_keys, vote_vals>>]_vars

\* the part of C5 the contract does keep: the call completes with the tally
\* Fail, refunds the bond and nothing else, and records no ballot
C5_ExpiredRefundsOnly ==
    [][\A id \in Ids :
        ( /\ CallStep("vote", id) \/ CallStep("finalized", id)
          /\ id < Len(proposals)
          /\ Stored(id).status = "Vote"
          /\ YesWeight(id) < CONSENSUS_PERCENTAGE
          /\ now > Stored(id).vote_period_end
          /\ lastCall'.op = "vote" => lastCall'.caller \in MemberAccounts )
        => /\ lastCall'.result = "ok"
           /\ lastCall'.tally = "Fail"
           /\ lastCall'.transfers = <<BondRefund(id)>>
           /\ executed' = executed
           /\ council' = council
           /\ proposals' = proposals]_vars

\* facts about the reachable states that decide C3 and C4: no stored status
\* is ever terminal, no ballot carries weight, the council stays the founder
AllStoredOpen == \A i \in 1..Len(proposals) : proposals[i].status = "Vote"
NoYesWeight == \A i \in 1..Len(proposals) : YesWeight(i - 1) = 0
OnlyFounder == Len(council) = 1 /\ council[1].account = Founder
                  /\ council[1].weight = 0

\* the weight the specification gives a ballot: the voter's locked stake as
\* a share of the stake locked by the whole council
LockedTotal == SumSeq([i \in 1..Len(council) |-> council[i].locked_tokens])
StakeOf(acct) == FilterSeq(council, acct)[1].locked_tokens
YesStake(id) ==
    SumSeq([j \in 1..Stored(id).votes_len |->
               IF vote_vals[j] = "Yes" THEN StakeOf(vote_keys[j].account)
               ELSE 0])
HasBallot(id, acct) ==
    \E j \in 1..Stored(id).votes_len : vote_keys[j].account = acct

\* C4: a council member's Yes vote before the deadline that brings the Yes
\* share of the open proposal to the threshold completes, records the
\* ballot, stores Success and finalizes in the same call: one bond refund
\* and one execution of the action
C4_MajorityVoteSucceeds ==
    [][\A id \in Ids :
        ( /\ CallStep("vote", id)
          /\ id < Len(proposals)
          /\ Stored(id).status = "Vote"
          /\ now <= Stored(id).vote_period_end
          /\ lastCall'.caller \in MemberAccounts
          /\ ~HasBallot(id, lastCall'.caller)
          /\ lastCall'.vote = "Yes"
          /\ LockedTotal > 0
          /\ (YesStake(id) + StakeOf(lastCall'.caller)) * 100
                 >= CONSENSUS_PERCENTAGE * LockedTotal )
        => /\ lastCall'.result = "ok"
           /\ proposals'[id + 1].status = "Success"
           /\ proposals'[id + 1].votes_len = Stored(id).votes_len + 1
           /\ refunds'[id + 1] = refunds[id + 1] + 1
           /\ executed'[id + 1] = executed[id + 1] + 1]_vars

OneBallotPerAccount ==
    \A i \in 1..Len(proposals) :
        \A j, k \in 1..proposals[i].votes_len :
            vote_keys[j].account = vote_keys[k].account => j = k

\* C6: a ledger never holds two ballots of one account, and a vote call by an
\* account that already has a ballot on the proposal fails with
\* DuplicateVote and leaves the ledger as it was
C6_DuplicateVoteAlways ==
    [][/\ OneBallotPerAccount'
       /\ \A id \in Ids :
            ( /\ CallStep("vote", id)
              /\ id < Len(proposals)
              /\ HasBallot(id, lastCall'.caller) )
            => /\ lastCall'.result = "DuplicateVote"
               /\ ledger(proposals'[id + 1], vote_keys', vote_vals')
                      = ledger(Stored(id), vote_keys, vote_vals)]_vars

\* C6 as amended: the second vote fails with DuplicateVote when it is made no
\* later than the deadline; whenever it is made, the ledger keeps the first
\* ballot and no ledger holds two ballots of one account
C6_DuplicateVoteBeforeDeadline ==
    [][/\ OneBallotPerAccount'
       /\ \A id \in Ids :
            ( /\ CallStep("vote", id)
              /\ id < Len(proposals)
              /\ HasBallot(id, lastCall'.caller) )
            => /\ now <= Stored(id).vote_period_end
                   => /\ lastCall'.result = "DuplicateVote"
                      /\ UNCHANGED <<contract, refunds, executed>>
               /\ ledger(proposals'[id + 1], vote_keys', vote_vals')
                      = ledger(Stored(id), vote_keys, vote_vals)]_vars

C6_Witness ==
    /\ lastCall.op = "vote"
    /\ lastCall.result = "DuplicateVote"
    /\ lastCall.vote = "No"
    /\ ledger(Stored(lastCall.id), vote_keys, vote_vals)
           = <<[council |-> council[1], vote |-> "Yes"]>>

\* C7: a vote call by an account that is no council member fails with
\* NotCouncilMember whatever the proposal's status or deadline, and changes
\* no ledger, no status, no council entry and requests no transfer
C7_NonMemberVoteRejected ==
    [][( /\ now' = now
         /\ lastCall'.op = "vote"
         /\ lastCall'.caller \notin MemberAccounts )
       => /\ lastCall'.result = "NotCouncilMember"
          /\ lastCall'.transfers = NoTransfers
          /\ UNCHANGED <<contract, refunds, executed>>]_vars

C7_Witness ==
    /\ lastCall.op = "vote"
    /\ lastCall.caller \notin MemberAccounts
    /\ lastCall.result = "NotCouncilMember"
    /\ lastCall.id < Len(proposals)
    /\ now > Stored(lastCall.id).vote_period_end
    /\ refunds[lastCall.id + 1] = 0

\* C8: a finalized call on an open proposal below the threshold whose
\* deadline has not passed fails with NotReady, requests no transfer and
\* leaves the status Vote and the council as they were
C8_EarlyFinalizeNotReady ==
    [][\A id \in Ids :
        ( /\ CallStep("finalized", id)
          /\ id < Len(proposals)
          /\ Stored(id).status = "Vote"
          /\ YesWeight(id) < CONSENSUS_PERCENTAGE
          /\ now <= Stored(id).vote_period_end )
        => /\ lastCall'.result = "NotReady"
           /\ lastCall'.transfers = NoTransfers
           /\ proposals'[id + 1].status = "Vote"
           /\ UNCHANGED <<contract, refunds, executed>>]_vars

C8_Witness ==
    /\ lastCall.op = "finalized"
    /\ lastCall.result = "NotReady"
    /\ lastCall.id < Len(proposals)
    /\ now = Stored(lastCall.id).vote_period_end
    /\ Stored(lastCall.id).status = "Vote"

\* C9: the action of a proposal is carried out only in a call in which the
\* proposal's Yes weight is at or above the threshold, the council changes
\* only when an action is carried out, and a call that ends in Fail requests
\* the bond refund and nothing else
C9_ActionOnlyUnderMajority ==
    [][/\ \A id \in Ids :
            (id < Len(executed) /\ executed'[id + 1] > executed[id + 1])
                => percent(proposals'[id + 1], vote_keys', vote_vals')
                       >= CONSENSUS_PERCENTAGE
       /\ council' # council => executed' # executed
       /\ \A id \in Ids :
            ( /\ CallStep("vote", id) \/ CallStep("finalized", id)
              /\ lastCall'.result = "ok"
              /\ lastCall'.tally = "Fail" )
            => /\ lastCall'.transfers = <<BondRefund(id)>>
               /\ executed' = executed
               /\ council' = council]_vars

C9_Witness ==
    /\ lastCall.op = "finalized"
    /\ lastCall.result = "ok"
    /\ lastCall.tally = "Fail"
    /\ Stored(lastCall.id).kind.type = "Payout"
    /\ HasBallot(lastCall.id, Founder)
    /\ refunds[lastCall.id + 1] = 1
    /\ executed[lastCall.id + 1] = 0

\* C10: add_proposal with a deposit below the bond fails with
\* InsufficientBond and leaves the proposals as they were; otherwise it
\* appends one proposal with status Vote, an empty ledger and the deadline
\* now + vote_period, returns the former length as its index and leaves the
\* proposals stored before at their indices, unchanged
C10_AddProposal ==
    [][( /\ now' = now
         /\ lastCall'.op = "add_proposal" )
       => IF lastCall'.deposit < bond
          THEN /\ lastCall'.result = "InsufficientBond"
               /\ proposals' = proposals
          ELSE /\ lastCall'.result = "ok"
               /\ Len(proposals') = Len(proposals) + 1
               /\ SubSeq(proposals', 1, Len(proposals)) = proposals
               /\ lastCall'.ret = Len(proposals)
               /\ LET p == proposals'[Len(proposals')]
                  IN /\ p.status = "Vote"
                     /\ ledger(p, vote_keys', vote_vals') = <<>>
                     /\ p.vote_period_end = now + vote_period]_vars

C10_Witness ==
    /\ lastCall.op = "add_proposal"
    /\ lastCall.result = "ok"
    /\ lastCall.ret = 1
    /\ Len(proposals) = 2
    /\ proposals[1].votes_len = 1
    /\ proposals[2].votes_len = 0
    /\ proposals[2].vote_period_end = now + vote_period

\* --------------------------------------------------- claims on the council
Weights == [i \in 1..Len(council) |-> council[i].weight]
Kind(id) == Stored(id).kind
UniqueAccounts ==
    \A i, j \in 1..Len(council) :
        council[i].account = council[j].account => i = j
\* every stored weight is the member's stake divided by the whole stake
WeightsRecomputed ==
    LockedTotal > 0 =>
        \A i \in 1..Len(council) :
            council[i].weight = council[i].locked_tokens \div LockedTotal
\* a finalized step on proposal id that ran the Success arm
SuccessStep(id) ==
    /\ CallStep("finalized", id)
    /\ lastCall'.tally = "Success"

C16_LedgersIndependent ==
    [][\A id \in Ids :
        (CallStep("vote", id) /\ id < Len(proposals))
        => /\ \A j \in Ids \ {id} :
                j < Len(proposals)
                => /\ ledger(proposals'[j + 1], vote_keys', vote_vals')
                          = ledger(Stored(j), vote_keys, vote_vals)
                   /\ proposals'[j + 1].status = Stored(j).status
           /\ ( /\ lastCall'.caller \in MemberAccounts
                /\ Stored(id).status = "Vote"
                /\ now <= Stored(id).vote_period_end
                /\ ~HasBallot(id, lastCall'.caller) )
              => /\ lastCall'.result = "ok"
                 /\ \E k \in 1..proposals'[id + 1].votes_len :
                       /\ vote_keys'[k].account = lastCall'.caller
                       /\ vote_vals'[k] = lastCall'.vote]_vars

\* the weight the council now stores for an account; none for a non-member
RegistryWeight(acct) ==
    IF acct \in MemberAccounts THEN FilterSeq(council, acct)[1].weight ELSE 0
CurrentYesWeight(id) ==
    SumSeq([j \in 1..Stored(id).votes_len |->
               IF vote_vals[j] = "Yes"
               THEN RegistryWeight(vote_keys[j].account) ELSE 0])
CurrentTally(id) ==
    IF CurrentYesWeight(id) >= CONSENSUS_PERCENTAGE THEN "Success"
    ELSE IF now > Stored(id).vote_period_end THEN "Fail"
    ELSE "Vote"

C18_CouncilFrame ==
    [][/\ council' # council
           => \E id \in Ids :
                 /\ id < Len(proposals)
                 /\ CallStep("vote", id) \/ CallStep("finalized", id)
                 /\ lastCall'.result = "ok"
                 /\ lastCall'.tally = "Success"
                 /\ Kind(id).type \in {"NewCouncil", "DeleteCouncil"}
       /\ (now' = now /\ lastCall'.tally \in {"Fail", "Vote", "none"})
           => council' = council]_vars

C18_Witness ==
    /\ lastCall.op = "finalized"
    /\ lastCall.result = "ok"
    /\ lastCall.tally = "Fail"
    /\ Kind(lastCall.id).type = "DeleteCouncil"
    /\ Stored(lastCall.id).receiver \in MemberAccounts
    /\ council = <<[account |-> Founder, weight |-> 0,
                    locked_tokens |-> council[1].locked_tokens]>>

\* C19: Success can be reached from a fresh DAO.  Yes ballots only add
\* weight, so if any run reaches the threshold, the run in which every
\* council member votes Yes before the deadline does: with a Yes ballot of
\* every member the proposal has the threshold weight and is stored as
\* Success
C19_UnanimousYesSucceeds ==
    \A i \in 1..Len(proposals) :
        ( \A a \in MemberAccounts :
              \E j \in 1..proposals[i].votes_len :
                  vote_keys[j].account = a /\ vote_vals[j] = "Yes" )
        => /\ YesWeight(i - 1) >= CONSENSUS_PERCENTAGE
           /\ proposals[i].status = "Success"

\* C20: once the deadline of an open proposal has passed, a finalized call
\* on it does not fail and the proposal's stored status is terminal
\* afterwards, so no proposal that is finalized stays open
C20_FinalizeClosesProposal ==
    [][\A id \in Ids :
        ( /\ CallStep("finalized", id)
          /\ id < Len(proposals)
          /\ Stored(id).status = "Vote"
          /\ now > Stored(id).vote_period_end )
        => /\ lastCall'.result = "ok"
           /\ proposals'[id + 1].status \in {"Success", "Fail"}]_vars

====
